---- MODULE Spec2Model ----
(***************************************************************************)
(* A model of the chat server of server/main.py (FastAPI handlers over one *)
(* JSON document, DB.dat) and of the DataStore class of server/db.py.      *)
(*                                                                         *)
(* main.py: `doc` is the persisted document.  Every handler loads a copy   *)
(* (`data`), mutates the copy and calls save_db only on its success path;  *)
(* each handler is an operator from the loaded copy to an outcome record   *)
(* [code, data, saved, body, events], and the action that runs it commits  *)
(* `data` to `doc` only when `saved` is TRUE.  The body of every           *)
(* `async with state_lock:` block holds no await, so it is one step.  The  *)
(* dependency get_authenticated_user runs before the handler and outside   *)
(* the lock: it is a step of its own (Authenticate), and a request that    *)
(* passed it waits in `inflight` under the username it resolved.  Nothing  *)
(* reads a waiting request's path or payload before its handler runs, so   *)
(* the handler step draws them when it runs.                               *)
(***************************************************************************)
EXTENDS Integers, Sequences, FiniteSets, TLC

VARIABLES
    doc,        \* main.py: the persisted document (DB.dat)
    now,        \* the clock, in seconds
    issued,     \* main.py: how many tokens uuid4 has produced
    inflight,   \* main.py: per username, the requests that passed the dependency and wait
    last,       \* the last step taken and its outcome (the response sent)
    session,    \* history: per user, the token of the latest login not followed by a logout
    sent,       \* history: the entries appended by successful send_message calls
    creator,    \* history: per room, the authenticated user who created it
    flips,      \* history: per invitation, how often its persisted status changed
    store,      \* db.py: DataStore.data
    minted,     \* db.py: how many session tokens secrets.token_hex has produced
    storeLast,  \* db.py: the last DataStore call and its outcome
    state_lock, \* main.py: the task that holds state_lock
    manager_lock, \* main.py: the task that holds manager.lock
    connections, \* main.py: manager.connections, in insertion order
    ws,         \* main.py: per WebSocket, the position of its websocket_endpoint call
    req,        \* main.py: per request served together with the sockets, its position
    liveLast,   \* the last step of a socket or of such a request
    sweep       \* main.py: the position of the background task expire_invites_task

vars == <<doc, now, issued, inflight, last, session, sent, creator, flips,
          store, minted, storeLast,
          state_lock, manager_lock, connections, ws, req, liveLast, sweep>>

serverVars == <<doc, issued, inflight, last, session, sent, creator, flips>>
storeVars == <<store, minted, storeLast>>
liveVars == <<state_lock, manager_lock, connections, ws, req, liveLast, sweep>>

---------------------------------------------------------------------------
(* Bounds of the model *)

MaxRooms == 2
MaxInviteRooms == 1
MaxInvites == 2
MaxMessages == 2
MaxTokens == 3
MaxRequests == 2
MaxSockets == 2
MaxLiveRequests == 2
MaxLiveInvites == 1
MaxLiveMessages == 1
MaxSweepInvites == 2

(* Program constants *)

INVITE_TIMEOUT_SECONDS == 300

---------------------------------------------------------------------------
(* Inputs *)

UserOrder == <<"alice", "bob">>
Usernames == {UserOrder[i] : i \in 1..Len(UserOrder)}
Passwords == {"secret1", "secret2"}
PasswordOf(u) == IF u = "alice" THEN "secret1" ELSE "secret2"
NoUser == "-"
NoToken == 0
Instants == {0, 300, 301}
RoomName == "proj"
Content == "hi"

GoodAttachment == [name |-> "a.bin", mime_type |-> "application/octet-stream",
                   data_base64 |-> <<"Q", "Q", "=", "=">>]
BadAttachment == [name |-> "a.bin", mime_type |-> "application/octet-stream",
                  data_base64 |-> <<"Q", "!", "=", "=">>]
AttachmentLists == {<<>>, <<GoodAttachment>>, <<GoodAttachment, BadAttachment>>}
MemberLists == {<<>>} \cup {<<u>> : u \in Usernames}

Base64Digits == {"A", "Q", "+", "/"}

---------------------------------------------------------------------------
(* Helpers for Python dicts and lists *)

\* list(d) for a set of usernames, in sorted order: sorted(set(...))
SortedList(S) == SelectSeq(UserOrder, LAMBDA u : u \in S)

Range(s) == {s[i] : i \in 1..Len(s)}

\* list.sort() on a list of usernames: a name listed twice stays listed twice
RECURSIVE SortedFrom(_, _)
SortedFrom(s, k) ==
    IF k > Len(UserOrder) THEN <<>>
    ELSE SelectSeq(s, LAMBDA u : u = UserOrder[k]) \o SortedFrom(s, k + 1)

Sorted(s) == SortedFrom(s, 1)

\* d[k] = v on the users dict
Put(users, k, v) == [u \in DOMAIN users \cup {k} |-> IF u = k THEN v ELSE users[u]]

\* the outcome of a handler: an HTTPException leaves without save_db
Raise(code, detail, data) ==
    [code |-> code, detail |-> detail, data |-> data, saved |-> FALSE, body |-> <<>>,
     events |-> <<>>]

Return(data, saved, body, events) ==
    [code |-> 200, detail |-> "ok", data |-> data, saved |-> saved, body |-> body,
     events |-> events]

EmptyDoc == [users |-> <<>>, rooms |-> <<>>, invitations |-> <<>>, messages |-> <<>>]

---------------------------------------------------------------------------
(* main.py: helpers *)

\* pwd_context.hash / pwd_context.verify
PwdHash(p) == <<"bcrypt", p>>
PwdVerify(p, h) == h = PwdHash(p)

\* Attachment.validate_base64: base64.b64decode(..., validate=True)
ValidBase64(s) ==
    LET pad == Cardinality({i \in 1..Len(s) : s[i] = "="})
    IN  /\ Len(s) % 4 = 0
        /\ pad <= 2
        /\ \A i \in 1..Len(s) :
              IF i > Len(s) - pad THEN s[i] = "=" ELSE s[i] \in Base64Digits

\* ensure_password_hash: [ok, user]; a legacy record is upgraded in memory
ensure_password_hash(user, raw_password) ==
    IF "password_hash" \in DOMAIN user
    THEN [ok |-> PwdVerify(raw_password, user.password_hash), user |-> user]
    ELSE IF "password" \in DOMAIN user /\ user.password = raw_password
    THEN [ok |-> TRUE,
          user |-> [f \in (DOMAIN user \ {"password"}) \cup {"password_hash"} |->
                       IF f = "password_hash" THEN PwdHash(raw_password) ELSE user[f]]]
    ELSE [ok |-> FALSE, user |-> user]

\* update_user_status, for a username that is in data["users"]
update_user_status(data, username, online, t) ==
    [data EXCEPT !.users = Put(data.users, username,
        [data.users[username] EXCEPT !.online = online, !.last_seen = t])]

\* mutant: the sweep expires an invitation already at the timeout
IsOverdue_at_timeout(invite, t) ==
    invite.status = "pending" /\ t - invite.created_at >= INVITE_TIMEOUT_SECONDS

\* the test of cleanup_expired_invites on one invitation
IsOverdue(invite, t) ==
    invite.status = "pending" /\ t - invite.created_at > INVITE_TIMEOUT_SECONDS

\* cleanup_expired_invites: the mutated copy and the expired_events
cleanup_expired_invites(data, t) ==
    LET ids == SelectSeq([i \in 1..Len(data.invitations) |-> i],
                         LAMBDA i : IsOverdue(data.invitations[i], t))
    IN  [data |-> [data EXCEPT !.invitations =
                     [i \in 1..Len(data.invitations) |->
                        IF IsOverdue(data.invitations[i], t)
                        THEN [data.invitations[i] EXCEPT !.status = "expired"]
                        ELSE data.invitations[i]]],
         events |-> [k \in 1..Len(ids) |->
                       [invite_id |-> ids[k],
                        sender |-> data.invitations[ids[k]].sender,
                        recipient |-> data.invitations[ids[k]].recipient,
                        room_id |-> data.invitations[ids[k]].room_id]]]

\* f"Invite is {invite['status']}"
InviteIs(status) ==
    CASE status = "pending" -> "Invite is pending"
      [] status = "accepted" -> "Invite is accepted"
      [] status = "declined" -> "Invite is declined"
      [] status = "expired" -> "Invite is expired"

\* authenticate_token: [code, detail, user]
TokenOwners(token, data) == {u \in DOMAIN data.users : data.users[u].token = token}

authenticate_token(token, data) ==
    IF token = NoToken THEN [code |-> 401, detail |-> "Missing token", user |-> NoUser]
    ELSE IF TokenOwners(token, data) # {}
    THEN [code |-> 200, detail |-> "ok",
          user |-> CHOOSE u \in TokenOwners(token, data) : TRUE]
    ELSE [code |-> 401, detail |-> "Invalid token", user |-> NoUser]

---------------------------------------------------------------------------
(* main.py: the handlers, from the loaded copy to the outcome *)

\* mutant: register does not look for the username and writes the record again
register_overwrite(data, username, password, t) ==
    Return([data EXCEPT !.users = Put(data.users, username,
               [password_hash |-> PwdHash(password), online |-> FALSE,
                last_seen |-> t, token |-> NoToken])],
           TRUE, <<>>, <<>>)

register(data, username, password, t) ==
    IF username \in DOMAIN data.users THEN Raise(409, "User already exists", data)
    ELSE Return([data EXCEPT !.users = Put(data.users, username,
                    [password_hash |-> PwdHash(password), online |-> FALSE,
                     last_seen |-> t, token |-> NoToken])],
                TRUE, <<>>, <<>>)

login(data, username, password, token, t) ==
    IF username \notin DOMAIN data.users THEN Raise(401, "Invalid credentials", data)
    ELSE LET checked == ensure_password_hash(data.users[username], password)
             d1 == [data EXCEPT !.users = Put(data.users, username, checked.user)]
         IN  IF ~checked.ok THEN Raise(401, "Invalid credentials", d1)
             ELSE LET d2 == [d1 EXCEPT !.users = Put(d1.users, username,
                                  [d1.users[username] EXCEPT !.token = token])]
                  IN  Return(update_user_status(d2, username, TRUE, t), TRUE, token, <<>>)

\* mutant: logout marks the user offline and leaves the token in place
logout_keep_token(data, token, t) ==
    LET auth == authenticate_token(token, data)
    IN  IF auth.code # 200 THEN Raise(401, auth.detail, data)
        ELSE Return(update_user_status(data, auth.user, FALSE, t), TRUE, auth.user, <<>>)

logout(data, token, t) ==
    LET auth == authenticate_token(token, data)
    IN  IF auth.code # 200 THEN Raise(401, auth.detail, data)
        ELSE LET d1 == [data EXCEPT !.users = Put(data.users, auth.user,
                             [data.users[auth.user] EXCEPT !.token = NoToken])]
             IN  Return(update_user_status(d1, auth.user, FALSE, t), TRUE, auth.user, <<>>)

list_rooms(data, token, user) ==
    IF user # token THEN Raise(403, "User mismatch", data)
    ELSE Return(data, FALSE,
                SelectSeq([i \in 1..Len(data.rooms) |-> i],
                          LAMBDA i : user \in Range(data.rooms[i].members)),
                <<>>)

create_room(data, token, owner, members, t) ==
    IF owner # token THEN Raise(403, "Owner mismatch", data)
    ELSE IF owner \notin DOMAIN data.users THEN Raise(404, "Owner not found", data)
    ELSE IF \E i \in 1..Len(members) : members[i] \notin DOMAIN data.users
    THEN Raise(404, "Member not found", data)
    ELSE Return([data EXCEPT !.rooms = Append(data.rooms,
                    [name |-> RoomName,
                     members |-> SortedList({owner} \cup Range(members)),
                     room_type |-> "text",
                     created_at |-> t])],
                TRUE, Len(data.rooms) + 1, <<>>)

\* mutant: create_invite saves the swept copy before it validates the payload
create_invite_save_after_sweep(data, token, sender, recipient, room_id, t) ==
    IF sender # token THEN Raise(403, "Sender mismatch", data)
    ELSE LET swept == cleanup_expired_invites(data, t)
             d1 == swept.data
         IN  IF sender \notin DOMAIN d1.users \/ recipient \notin DOMAIN d1.users
                \/ room_id \notin 1..Len(d1.rooms)
             THEN [Raise(404, "Room not found", d1) EXCEPT !.saved = TRUE]
             ELSE Return([d1 EXCEPT !.invitations = Append(d1.invitations,
                             [sender |-> sender, recipient |-> recipient,
                              room_id |-> room_id, status |-> "pending",
                              created_at |-> t])],
                         TRUE, Len(d1.invitations) + 1, swept.events)

create_invite(data, token, sender, recipient, room_id, t) ==
    IF sender # token THEN Raise(403, "Sender mismatch", data)
    ELSE LET swept == cleanup_expired_invites(data, t)
             d1 == swept.data
         IN  IF sender \notin DOMAIN d1.users THEN Raise(404, "Sender not found", d1)
             ELSE IF recipient \notin DOMAIN d1.users
             THEN Raise(404, "Recipient not found", d1)
             ELSE IF room_id \notin 1..Len(d1.rooms) THEN Raise(404, "Room not found", d1)
             ELSE Return([d1 EXCEPT !.invitations = Append(d1.invitations,
                             [sender |-> sender, recipient |-> recipient,
                              room_id |-> room_id, status |-> "pending",
                              created_at |-> t])],
                         TRUE, Len(d1.invitations) + 1, swept.events)

\* mutant: accept_invite does not look at the status
accept_invite_any_status(data, token, invite_id, t) ==
    LET swept == cleanup_expired_invites(data, t)
        d1 == swept.data
    IN  IF invite_id \notin 1..Len(d1.invitations) THEN Raise(404, "Invite not found", d1)
        ELSE LET invite == d1.invitations[invite_id]
                 d2 == [d1 EXCEPT !.invitations[invite_id].status = "accepted"]
                 room == d2.rooms[invite.room_id]
             IN  IF invite.recipient # token
                 THEN Raise(403, "Not invite recipient", d1)
                 ELSE Return(IF invite.recipient \notin Range(room.members)
                             THEN [d2 EXCEPT !.rooms[invite.room_id].members =
                                      Append(room.members, invite.recipient)]
                             ELSE d2,
                             TRUE, "accepted", swept.events)

\* mutant: accept_invite sets the status and forgets the room
accept_invite_no_append(data, token, invite_id, t) ==
    LET swept == cleanup_expired_invites(data, t)
        d1 == swept.data
    IN  IF invite_id \notin 1..Len(d1.invitations) THEN Raise(404, "Invite not found", d1)
        ELSE LET invite == d1.invitations[invite_id]
             IN  IF invite.status # "pending"
                 THEN Raise(409, InviteIs(invite.status), d1)
                 ELSE IF invite.recipient # token
                 THEN Raise(403, "Not invite recipient", d1)
                 ELSE Return([d1 EXCEPT !.invitations[invite_id].status = "accepted"],
                             TRUE, "accepted", swept.events)

accept_invite(data, token, invite_id, t) ==
    LET swept == cleanup_expired_invites(data, t)
        d1 == swept.data
    IN  IF invite_id \notin 1..Len(d1.invitations) THEN Raise(404, "Invite not found", d1)
        ELSE LET invite == d1.invitations[invite_id]
                 d2 == [d1 EXCEPT !.invitations[invite_id].status = "accepted"]
             IN  IF invite.status # "pending"
                 THEN Raise(409, InviteIs(invite.status), d1)
                 ELSE IF invite.recipient # token
                 THEN Raise(403, "Not invite recipient", d1)
                 ELSE IF invite.room_id \notin 1..Len(d2.rooms)
                 THEN Raise(404, "Room not found", d2)
                 ELSE LET room == d2.rooms[invite.room_id]
                          d3 == IF invite.recipient \notin Range(room.members)
                                THEN [d2 EXCEPT !.rooms[invite.room_id].members =
                                         Append(room.members, invite.recipient)]
                                ELSE d2
                      IN  Return(d3, TRUE, "accepted", swept.events)

\* mutant: decline_invite does not look at the status
decline_invite_any_status(data, token, invite_id, t) ==
    LET swept == cleanup_expired_invites(data, t)
        d1 == swept.data
    IN  IF invite_id \notin 1..Len(d1.invitations) THEN Raise(404, "Invite not found", d1)
        ELSE IF d1.invitations[invite_id].recipient # token
        THEN Raise(403, "Not invite recipient", d1)
        ELSE Return([d1 EXCEPT !.invitations[invite_id].status = "declined"],
                    TRUE, "declined", swept.events)

\* mutant: decline_invite does not look at the caller
decline_invite_any_user(data, token, invite_id, t) ==
    LET swept == cleanup_expired_invites(data, t)
        d1 == swept.data
    IN  IF invite_id \notin 1..Len(d1.invitations) THEN Raise(404, "Invite not found", d1)
        ELSE IF d1.invitations[invite_id].status # "pending"
        THEN Raise(409, InviteIs(d1.invitations[invite_id].status), d1)
        ELSE Return([d1 EXCEPT !.invitations[invite_id].status = "declined"],
                    TRUE, "declined", swept.events)

decline_invite(data, token, invite_id, t) ==
    LET swept == cleanup_expired_invites(data, t)
        d1 == swept.data
    IN  IF invite_id \notin 1..Len(d1.invitations) THEN Raise(404, "Invite not found", d1)
        ELSE LET invite == d1.invitations[invite_id]
             IN  IF invite.status # "pending"
                 THEN Raise(409, InviteIs(invite.status), d1)
                 ELSE IF invite.recipient # token
                 THEN Raise(403, "Not invite recipient", d1)
                 ELSE Return([d1 EXCEPT !.invitations[invite_id].status = "declined"],
                             TRUE, "declined", swept.events)

send_message(data, token, room_id, sender, attachments, t) ==
    IF sender # token THEN Raise(403, "Sender mismatch", data)
    ELSE IF room_id \notin 1..Len(data.rooms) THEN Raise(404, "Room not found", data)
    ELSE IF sender \notin Range(data.rooms[room_id].members)
    THEN Raise(403, "Sender not in room", data)
    ELSE IF \E i \in 1..Len(attachments) : ~ValidBase64(attachments[i].data_base64)
    THEN Raise(400, "Invalid base64", data)
    ELSE LET entry == [id |-> Len(data.messages) + 1, room_id |-> room_id,
                       sender |-> sender, content |-> Content,
                       attachments |-> attachments, created_at |-> t]
         IN  Return([data EXCEPT !.messages = Append(data.messages, entry)],
                    TRUE, entry.id, <<>>)

\* mutant: list_messages returns the messages of every room
list_messages_all_rooms(data, token, room_id) ==
    IF room_id \notin 1..Len(data.rooms) THEN Raise(404, "Room not found", data)
    ELSE IF token \notin Range(data.rooms[room_id].members)
    THEN Raise(403, "Not a room member", data)
    ELSE Return(data, FALSE, data.messages, <<>>)

list_messages(data, token, room_id) ==
    IF room_id \notin 1..Len(data.rooms) THEN Raise(404, "Room not found", data)
    ELSE IF token \notin Range(data.rooms[room_id].members)
    THEN Raise(403, "Not a room member", data)
    ELSE Return(data, FALSE,
                SelectSeq(data.messages, LAMBDA msg : msg.room_id = room_id),
                <<>>)

\* one iteration of expire_invites_task: save_db only if something expired
expire_invites_task(data, t) ==
    LET swept == cleanup_expired_invites(data, t)
    IN  Return(swept.data, swept.events # <<>>, <<>>, swept.events)

---------------------------------------------------------------------------
(* db.py: DataStore.  `store` is self.data, which every method changes in place, so
   what a method did before it raised stays; each method is an operator from
   self.data to [code, data, body], code being "ok" or the ValueError raised. *)

NoTime == -1

EmptyStore ==
    [users |-> <<>>, sessions |-> <<>>, rooms |-> <<>>, invites |-> <<>>, messages |-> <<>>]

StoreRaise(error, data) == [code |-> error, data |-> data, body |-> <<>>]

StoreReturn(data, body) == [code |-> "ok", data |-> data, body |-> body]

hash_password(password) == <<"sha256", password>>

DataStore_register_user(data, username, password, t) ==
    IF username \in DOMAIN data.users THEN StoreRaise("user_exists", data)
    ELSE StoreReturn([data EXCEPT !.users = Put(data.users, username,
                         [password_hash |-> hash_password(password), created_at |-> t,
                          online |-> FALSE, last_seen |-> NoTime])],
                     <<>>)

DataStore_verify_user(data, username, password) ==
    /\ username \in DOMAIN data.users
    /\ data.users[username].password_hash = hash_password(password)

DataStore_set_online(data, username, online, t) ==
    IF username \notin DOMAIN data.users THEN data
    ELSE [data EXCEPT !.users = Put(data.users, username,
             [data.users[username] EXCEPT !.online = online, !.last_seen = t])]

DataStore_create_session(data, username, token, t) ==
    LET d1 == [data EXCEPT !.sessions = Put(data.sessions, token,
                   [username |-> username, created_at |-> t])]
    IN  StoreReturn(DataStore_set_online(d1, username, TRUE, t), token)

DataStore_drop_session(data, token, t) ==
    IF token \notin DOMAIN data.sessions THEN StoreReturn(data, <<>>)
    ELSE LET d1 == [data EXCEPT !.sessions =
                       [k \in DOMAIN data.sessions \ {token} |-> data.sessions[k]]]
         IN  StoreReturn(DataStore_set_online(d1, data.sessions[token].username, FALSE, t),
                         <<>>)

DataStore_username_from_token(data, token) ==
    IF token \notin DOMAIN data.sessions THEN NoUser
    ELSE data.sessions[token].username

DataStore_create_room(data, owner, members, t) ==
    StoreReturn([data EXCEPT !.rooms = Append(data.rooms,
                    [room_id |-> Len(data.rooms) + 1, name |-> RoomName, owner |-> owner,
                     members |-> SortedList({owner} \cup Range(members)),
                     created_at |-> t])],
                Len(data.rooms) + 1)

DataStore_list_rooms_for_user(data, username) ==
    SelectSeq(data.rooms, LAMBDA room : username \in Range(room.members))

\* mutant: add_member_to_room appends without looking at the members
DataStore_add_member_to_room_unchecked(data, room_id, username) ==
    IF room_id \notin 1..Len(data.rooms) THEN StoreRaise("room_not_found", data)
    ELSE StoreReturn([data EXCEPT !.rooms[room_id].members =
                         Sorted(Append(data.rooms[room_id].members, username))],
                     <<>>)

DataStore_add_member_to_room(data, room_id, username) ==
    IF room_id \notin 1..Len(data.rooms) THEN StoreRaise("room_not_found", data)
    ELSE IF username \in Range(data.rooms[room_id].members) THEN StoreReturn(data, <<>>)
    ELSE StoreReturn([data EXCEPT !.rooms[room_id].members =
                         Sorted(Append(data.rooms[room_id].members, username))],
                     <<>>)

DataStore_create_invite(data, from_user, to_user, room_id, t) ==
    IF room_id \notin 1..Len(data.rooms) THEN StoreRaise("room_not_found", data)
    ELSE StoreReturn([data EXCEPT !.invites = Append(data.invites,
                         [invite_id |-> Len(data.invites) + 1, from_user |-> from_user,
                          to_user |-> to_user, room_id |-> room_id, status |-> "pending",
                          created_at |-> t,
                          expires_at |-> t + INVITE_TIMEOUT_SECONDS])],
                     Len(data.invites) + 1)

DataStore_expire_invites(data, t) ==
    [data EXCEPT !.invites =
        [i \in 1..Len(data.invites) |->
            IF data.invites[i].status = "pending" /\ data.invites[i].expires_at < t
            THEN [data.invites[i] EXCEPT !.status = "expired"]
            ELSE data.invites[i]]]

DataStore_list_invites_for_user(data, username, t) ==
    LET d1 == DataStore_expire_invites(data, t)
    IN  StoreReturn(d1, SelectSeq(d1.invites, LAMBDA invite : invite.to_user = username))

DataStore_get_invite(data, invite_id, t) ==
    LET d1 == DataStore_expire_invites(data, t)
    IN  IF invite_id \notin 1..Len(d1.invites) THEN StoreRaise("invite_not_found", d1)
        ELSE StoreReturn(d1, d1.invites[invite_id])

DataStore_update_invite_status(data, invite_id, status, t) ==
    LET d1 == DataStore_expire_invites(data, t)
    IN  IF invite_id \notin 1..Len(d1.invites) THEN StoreRaise("invite_not_found", d1)
        ELSE LET d2 == [d1 EXCEPT !.invites[invite_id].status = status]
             IN  StoreReturn(d2, d2.invites[invite_id])

DataStore_add_message(data, room_id, sender, attachments, t) ==
    LET message == [message_id |-> Len(data.messages) + 1, room_id |-> room_id,
                    sender |-> sender, content |-> Content,
                    attachments |-> attachments, images |-> <<>>, created_at |-> t]
    IN  IF room_id \notin 1..Len(data.rooms) THEN StoreRaise("room_not_found", data)
        ELSE StoreReturn([data EXCEPT !.messages = Append(data.messages, message)],
                         message)

DataStore_list_messages(data, room_id) ==
    SelectSeq(data.messages, LAMBDA message : message.room_id = room_id)

StoreOutcome(op, r, id) == [op |-> op, code |-> r.code, id |-> id]

---------------------------------------------------------------------------
(* main.py: the live connections.  A task is a websocket_endpoint call ("ws"), a
   request handler ("http") or nobody; manager.connections is a dict, kept here
   as the list of its entries in insertion order, which is the order in which
   broadcast walks them. *)

NoProc == <<"none", 0>>
WsProc(s) == <<"ws", s>>
HttpProc(k) == <<"http", k>>

Sockets == 1..MaxSockets
NoSocket == 0

\* a token that uuid4 never produced
BogusToken == -1

HasConnection(conns, username) == \E i \in 1..Len(conns) : conns[i].user = username

\* self.connections.get(username)
ConnectionOf(conns, username) ==
    IF HasConnection(conns, username)
    THEN conns[CHOOSE i \in 1..Len(conns) : conns[i].user = username].ws
    ELSE NoSocket

\* ConnectionManager.connect, after websocket.accept(): self.connections[username] = websocket
ConnectionManager_connect(conns, username, websocket) ==
    IF HasConnection(conns, username)
    THEN [i \in 1..Len(conns) |->
             IF conns[i].user = username THEN [user |-> username, ws |-> websocket]
             ELSE conns[i]]
    ELSE Append(conns, [user |-> username, ws |-> websocket])

\* ConnectionManager.disconnect: self.connections.pop(username, None)
ConnectionManager_disconnect(conns, username) ==
    SelectSeq(conns, LAMBDA entry : entry.user # username)

\* mutant: the personal push goes to the first socket of the registry
ConnectionManager_send_personal_first(conns, username) ==
    IF conns = <<>> THEN <<>> ELSE <<conns[1].ws>>

\* ConnectionManager.send_personal: the sockets it sends to
ConnectionManager_send_personal(conns, username) ==
    IF ConnectionOf(conns, username) = NoSocket THEN <<>>
    ELSE <<ConnectionOf(conns, username)>>

\* ConnectionManager.broadcast: list(self.connections.values())
ConnectionManager_broadcast(conns) == [i \in 1..Len(conns) |-> conns[i].ws]

\* mutant: the sends run inside `async with self.lock`
LockWhileSending_inside(task) == task

\* who holds manager.lock while send_personal and broadcast send: the
\* `async with self.lock` block has ended
LockWhileSending(task) == NoProc

\* what a task is about to send: to one user or to every connection
Personal(to, type) == [kind |-> "personal", to |-> to, type |-> type]
Broadcast(type, about) == [kind |-> "broadcast", to |-> about, type |-> type]

\* the sends of a task: the calls still to make and, once the running call took
\* its sockets under manager.lock, the sockets it has not sent to yet
NoSends == [todo |-> <<>>, snap |-> FALSE, targets |-> <<>>]

\* mutant: any valid token opens a connection for the username in the query
websocket_endpoint_any_user(data, username, token, t) ==
    LET auth == authenticate_token(token, data)
    IN  IF auth.code # 200 THEN Raise(1008, auth.detail, data)
        ELSE IF username \notin DOMAIN data.users THEN Raise(1008, "User not found", data)
        ELSE Return(update_user_status(data, username, TRUE, t), TRUE, username, <<>>)

\* websocket_endpoint, the block under state_lock
websocket_endpoint(data, username, token, t) ==
    LET auth == authenticate_token(token, data)
    IN  IF auth.code # 200 THEN Raise(1008, auth.detail, data)
        ELSE IF auth.user # username THEN Raise(1008, "User mismatch", data)
        ELSE IF username \notin DOMAIN data.users THEN Raise(1008, "User not found", data)
        ELSE Return(update_user_status(data, username, TRUE, t), TRUE, username, <<>>)

\* websocket_endpoint, once the read loop ended with WebSocketDisconnect: the
\* block under state_lock
websocket_endpoint_down(data, username, t) ==
    IF username \in DOMAIN data.users
    THEN Return(update_user_status(data, username, FALSE, t), TRUE, username, <<>>)
    ELSE Return(data, FALSE, username, <<>>)

NewSocket ==
    [pc |-> "new", user |-> NoUser, token |-> NoToken, peer |-> TRUE, code |-> "none",
     sends |-> NoSends, valid |-> FALSE, trace |-> <<>>, nth |-> 0]

IdleRequest ==
    [pc |-> "idle", op |-> "none", token |-> NoToken, user |-> NoUser, saved |-> FALSE,
     sends |-> NoSends]

\* a step of a task: `access` is what it did with DB.dat and `holder` who held
\* state_lock while it did; `to`, `ws`, `type` and `outcome` describe a send
SweepProc == <<"sweep", 0>>

\* expire_invites_task in asyncio.sleep; `expired` are the events of its
\* iterations that saved, `attempts` the pushes it has called send_personal for
SleepingSweep == [pc |-> "sleep", sends |-> NoSends, expired |-> <<>>, attempts |-> <<>>]

LiveStep(op, task, access, holder, to, socket, type, outcome) ==
    [op |-> op, task |-> task, access |-> access, holder |-> holder, to |-> to,
     ws |-> socket, type |-> type, outcome |-> outcome]

Quiet(op, task) == LiveStep(op, task, "none", NoProc, NoUser, NoSocket, "none", "none")

LiveInit ==
    /\ state_lock = NoProc
    /\ manager_lock = NoProc
    /\ connections = <<>>
    /\ ws = [s \in Sockets |-> NewSocket]
    /\ req = [k \in 1..MaxLiveRequests |-> IdleRequest]
    /\ liveLast = Quiet("init", NoProc)
    /\ sweep = SleepingSweep

---------------------------------------------------------------------------
(* main.py: the steps *)

Outcome(op, r, id) == [op |-> op, code |-> r.code, detail |-> r.detail, id |-> id]

NoOutcome(op) == [op |-> op, code |-> 200, detail |-> "ok", id |-> 0]

\* what save_db leaves on disk after a handler ended with outcome r
Persisted(r) == IF r.saved THEN r.data ELSE doc

\* the history of status changes, over the document nd that the step leaves
Flipped(nd) ==
    [i \in 1..Len(nd.invitations) |->
        (IF i <= Len(flips) THEN flips[i] ELSE 0)
        + (IF i <= Len(doc.invitations)
              /\ nd.invitations[i].status # doc.invitations[i].status
           THEN 1 ELSE 0)]

Waiting == LET Sum[k \in 0..Len(UserOrder)] ==
                   IF k = 0 THEN 0 ELSE Sum[k - 1] + inflight[UserOrder[k]]
           IN  Sum[Len(UserOrder)]

\* no DB.dat yet: load_db returns the empty document
Init ==
    /\ doc = EmptyDoc
    /\ now = 0
    /\ issued = 0
    /\ inflight = [u \in Usernames |-> 0]
    /\ last = NoOutcome("init")
    /\ session = [u \in Usernames |-> NoToken]
    /\ sent = <<>>
    /\ creator = <<>>
    /\ flips = <<>>
    /\ store = EmptyStore
    /\ minted = 0
    /\ storeLast = StoreOutcome("init", StoreReturn(EmptyStore, <<>>), 0)
    /\ LiveInit

\* the document that earlier requests left in DB.dat: every user registered and
\* logged in once, in UserOrder (token n belongs to UserOrder[n])
RECURSIVE SeedUsers(_)
SeedUsers(n) ==
    IF n = 0 THEN EmptyDoc
    ELSE login(register(SeedUsers(n - 1), UserOrder[n], PasswordOf(UserOrder[n]), 0).data,
               UserOrder[n], PasswordOf(UserOrder[n]), n, 0).data

\* the server with every user registered and logged in
InitSeeded ==
    /\ doc = SeedUsers(Len(UserOrder))
    /\ now = 0
    /\ issued = Len(UserOrder)
    /\ inflight = [u \in Usernames |-> 0]
    /\ last = NoOutcome("init")
    /\ session = [u \in Usernames |-> CHOOSE n \in 1..Len(UserOrder) : UserOrder[n] = u]
    /\ sent = <<>>
    /\ creator = <<>>
    /\ flips = <<>>
    /\ store = EmptyStore
    /\ minted = 0
    /\ storeLast = StoreOutcome("init", StoreReturn(EmptyStore, <<>>), 0)
    /\ LiveInit

\* the seeded server after alice created a room
InitRoom ==
    /\ doc = create_room(SeedUsers(Len(UserOrder)), "alice", "alice", <<>>, 0).data
    /\ now = 0
    /\ issued = Len(UserOrder)
    /\ inflight = [u \in Usernames |-> 0]
    /\ last = NoOutcome("init")
    /\ session = [u \in Usernames |-> CHOOSE n \in 1..Len(UserOrder) : UserOrder[n] = u]
    /\ sent = <<>>
    /\ creator = <<>>
    /\ flips = <<>>
    /\ store = EmptyStore
    /\ minted = 0
    /\ storeLast = StoreOutcome("init", StoreReturn(EmptyStore, <<>>), 0)
    /\ LiveInit

Tick ==
    \E t \in Instants :
        /\ t > now
        /\ now' = t
        /\ last' = NoOutcome("tick")
        /\ UNCHANGED <<doc, issued, inflight, session, sent, creator, flips, storeVars, liveVars>>

Register ==
    \E username \in Usernames :
        LET r == register(doc, username, PasswordOf(username), now)
        IN  /\ doc' = Persisted(r)
            /\ last' = Outcome("register", r, 0)
            /\ UNCHANGED <<now, issued, inflight, session, sent, creator, flips, storeVars, liveVars>>

Login ==
    \E username \in Usernames, password \in Passwords :
        LET r == login(doc, username, password, issued + 1, now)
        IN  /\ issued < MaxTokens
            /\ doc' = Persisted(r)
            /\ issued' = IF r.code = 200 THEN issued + 1 ELSE issued
            /\ session' = IF r.code = 200
                          THEN [session EXCEPT ![username] = issued + 1]
                          ELSE session
            /\ last' = Outcome("login", r, IF r.code = 200 THEN r.body ELSE 0)
            /\ UNCHANGED <<now, inflight, sent, creator, flips, storeVars, liveVars>>

Logout ==
    \E token \in 0..issued :
        LET r == logout(doc, token, now)
        IN  /\ doc' = Persisted(r)
            /\ session' = IF r.code = 200
                          THEN [session EXCEPT ![r.body] = NoToken]
                          ELSE session
            /\ last' = Outcome("logout", r, token)
            /\ UNCHANGED <<now, issued, inflight, sent, creator, flips, storeVars, liveVars>>

\* get_authenticated_user, the dependency of the handlers below
Authenticate ==
    \E token \in 0..issued :
        LET auth == authenticate_token(token, doc)
        IN  /\ Waiting < MaxRequests
            /\ inflight' = IF auth.code = 200
                           THEN [inflight EXCEPT ![auth.user] = @ + 1]
                           ELSE inflight
            /\ last' = Outcome("authenticate", auth, token)
            /\ UNCHANGED <<doc, now, issued, session, sent, creator, flips, storeVars, liveVars>>

\* the handler of a request that passed the dependency as `token` runs and ends with r
Handle(token, op, r, id) ==
    /\ inflight[token] > 0
    /\ inflight' = [inflight EXCEPT ![token] = @ - 1]
    /\ doc' = Persisted(r)
    /\ flips' = Flipped(Persisted(r))
    /\ last' = Outcome(op, r, id)
    /\ UNCHANGED <<now, issued, session, storeVars, liveVars>>

ListRooms ==
    \E token \in Usernames, user \in Usernames :
        /\ Handle(token, "list_rooms", list_rooms(doc, token, user), 0)
        /\ UNCHANGED <<sent, creator>>

CreateRoom ==
    \E token \in Usernames, owner \in Usernames, members \in MemberLists :
        LET r == create_room(doc, token, owner, members, now)
        IN  /\ Len(doc.rooms) < MaxRooms
            /\ Handle(token, "create_room", r, IF r.code = 200 THEN r.body ELSE 0)
            /\ creator' = IF r.code = 200 THEN Append(creator, token) ELSE creator
            /\ UNCHANGED sent

CreateInvite ==
    \E token \in Usernames, sender \in Usernames, recipient \in Usernames,
       room_id \in 1..MaxRooms :
        LET r == create_invite(doc, token, sender, recipient, room_id, now)
        IN  /\ Len(doc.invitations) < MaxInvites
            /\ Handle(token, "create_invite", r, IF r.code = 200 THEN r.body ELSE 0)
            /\ UNCHANGED <<sent, creator>>

AcceptInvite ==
    \E token \in Usernames, invite_id \in 1..MaxInvites :
        /\ Handle(token, "accept_invite", accept_invite(doc, token, invite_id, now),
                  invite_id)
        /\ UNCHANGED <<sent, creator>>

DeclineInvite ==
    \E token \in Usernames, invite_id \in 1..MaxInvites :
        /\ Handle(token, "decline_invite", decline_invite(doc, token, invite_id, now),
                  invite_id)
        /\ UNCHANGED <<sent, creator>>

SendMessage ==
    \E token \in Usernames, room_id \in 1..MaxRooms, sender \in Usernames,
       attachments \in AttachmentLists :
        LET r == send_message(doc, token, room_id, sender, attachments, now)
        IN  /\ Len(doc.messages) < MaxMessages
            /\ Handle(token, "send_message", r, room_id)
            /\ sent' = IF r.code = 200
                       THEN Append(sent, r.data.messages[Len(r.data.messages)])
                       ELSE sent
            /\ UNCHANGED creator

ListMessages ==
    \E token \in Usernames, room_id \in 1..MaxRooms :
        /\ Handle(token, "list_messages", list_messages(doc, token, room_id), room_id)
        /\ UNCHANGED <<sent, creator>>

\* one iteration of the background task expire_invites_task
Sweep ==
    LET r == expire_invites_task(doc, now)
    IN  /\ doc' = Persisted(r)
        /\ flips' = Flipped(Persisted(r))
        /\ last' = Outcome("sweep", r, 0)
        /\ UNCHANGED <<now, issued, inflight, session, sent, creator, storeVars, liveVars>>

---------------------------------------------------------------------------
(* main.py: the steps of the live connections.  A step ends where the code
   awaits the network or waits for a lock that may be taken. *)

\* what no step of a socket or of a request served with the sockets changes
restVars == <<now, inflight, last, sent, creator, flips, storeVars, sweep>>

\* websocket.send_json to socket c: delivered while the peer is there; once the
\* peer is gone the outcome depends on the ASGI server, which drops the frame or
\* raises WebSocketDisconnect or another error
SendOutcomes(c) ==
    IF ws[c].peer THEN {"delivered"}
    ELSE {"dropped", "WebSocketDisconnect", "RuntimeError"}

\* the sockets the running send_personal or broadcast call has yet to send to
Targets(sends) ==
    IF sends.snap THEN sends.targets
    ELSE IF sends.todo[1].kind = "personal"
    THEN ConnectionManager_send_personal(connections, sends.todo[1].to)
    ELSE ConnectionManager_broadcast(connections)

\* after one send_json returned: the next socket of the call, or the next call
Sent(sends) ==
    IF Len(Targets(sends)) > 1
    THEN [todo |-> sends.todo, snap |-> TRUE, targets |-> Tail(Targets(sends))]
    ELSE [todo |-> Tail(sends.todo), snap |-> FALSE, targets |-> <<>>]

\* the record of one send_json by `task`
SendStep(task, sends, outcome) ==
    LiveStep("send", task, "none", state_lock, sends.todo[1].to,
             IF Targets(sends) = <<>> THEN NoSocket ELSE Targets(sends)[1],
             sends.todo[1].type, outcome)

WsStart(s) ==
    \E username \in Usernames \cup {NoUser}, token \in (0..issued) \cup {BogusToken} :
        /\ ws[s].pc = "new"
        /\ ws' = [ws EXCEPT ![s] =
                    IF username = NoUser \/ token = NoToken
                    THEN [@ EXCEPT !.pc = "closed", !.code = "1008",
                                   !.user = username, !.token = token]
                    ELSE [@ EXCEPT !.pc = "check", !.user = username, !.token = token]]
        /\ liveLast' = Quiet("ws_start", WsProc(s))
        /\ UNCHANGED <<doc, issued, session, state_lock, manager_lock, connections, req,
                       restVars>>

WsValidate(s) ==
    LET r == websocket_endpoint(doc, ws[s].user, ws[s].token, now)
    IN  /\ ws[s].pc = "check"
        /\ state_lock = NoProc
        /\ doc' = Persisted(r)
        /\ state_lock' = IF r.code = 200 THEN NoProc ELSE WsProc(s)
        /\ ws' = [ws EXCEPT ![s] =
                    IF r.code = 200
                    THEN [@ EXCEPT !.pc = "accept", !.trace = Append(@, "persist"),
                                   !.valid = /\ ws[s].user \in DOMAIN doc.users
                                             /\ doc.users[ws[s].user].token = ws[s].token]
                    ELSE [@ EXCEPT !.pc = "closing"]]
        /\ liveLast' = LiveStep("ws_validate", WsProc(s),
                                IF r.saved THEN "load_save" ELSE "load", WsProc(s),
                                NoUser, NoSocket, "none", "none")
        /\ UNCHANGED <<issued, session, manager_lock, connections, req, restVars>>

\* websocket.close(code=1008) returned: the `async with state_lock` block ends
WsCloseDone(s) ==
    /\ ws[s].pc = "closing"
    /\ state_lock' = NoProc
    /\ ws' = [ws EXCEPT ![s] = [@ EXCEPT !.pc = "closed", !.code = "1008"]]
    /\ liveLast' = Quiet("ws_close", WsProc(s))
    /\ UNCHANGED <<doc, issued, session, manager_lock, connections, req, restVars>>

\* manager.connect, and the broadcast of line 482 is next
WsConnect(s) ==
    /\ ws[s].pc = "accept"
    /\ manager_lock = NoProc
    /\ connections' = ConnectionManager_connect(connections, ws[s].user, s)
    /\ ws' = [ws EXCEPT ![s] =
                [@ EXCEPT !.pc = "announce", !.trace = Append(@, "register"),
                          !.nth = Cardinality({c \in Sockets : ws[c].nth > 0}) + 1,
                          !.sends = [NoSends EXCEPT !.todo =
                                        <<Broadcast("status_online", ws[s].user)>>]]]
    /\ liveLast' = Quiet("ws_connect", WsProc(s))
    /\ UNCHANGED <<doc, issued, session, state_lock, manager_lock, req, restVars>>

\* the frames a client sends: a signal to somebody or to nobody, a ping, a frame
\* of another type, and a frame that receive_json cannot decode
Frames ==
    {[type |-> "signal", to |-> u] : u \in Usernames \cup {NoUser}}
    \cup {[type |-> t, to |-> NoUser] : t \in {"ping", "chat", "undecodable"}}

\* one turn of the read loop with a frame from the client
WsFrame(s) ==
    \E frame \in Frames :
        /\ ws[s].pc = "open"
        /\ ws[s].peer
        /\ ws' = [ws EXCEPT ![s] =
                    CASE frame.type = "signal" /\ frame.to # NoUser ->
                           [@ EXCEPT !.pc = "relay",
                                     !.sends = [NoSends EXCEPT !.todo =
                                                   <<Personal(frame.to, "signal")>>]]
                      [] frame.type = "ping" ->
                           [@ EXCEPT !.pc = "relay",
                                     !.sends = [NoSends EXCEPT !.todo =
                                                   <<Personal(ws[s].user, "pong")>>]]
                      [] frame.type = "undecodable" ->
                           [@ EXCEPT !.pc = "crashed", !.peer = FALSE]
                      [] OTHER -> @]
        /\ liveLast' = LiveStep("ws_frame", WsProc(s), "none", NoProc, frame.to, s,
                                frame.type, "none")
        /\ UNCHANGED <<doc, issued, session, state_lock, manager_lock, connections, req,
                       restVars>>

\* the client goes away
WsClientGone(s) ==
    /\ ws[s].pc \in {"announce", "open", "relay"}
    /\ ws[s].peer
    /\ ws' = [ws EXCEPT ![s] = [@ EXCEPT !.peer = FALSE]]
    /\ liveLast' = Quiet("ws_client_gone", WsProc(s))
    /\ UNCHANGED <<doc, issued, session, state_lock, manager_lock, connections, req,
                   restVars>>

\* mutant: the except branch persists and broadcasts but never unregisters
WsDisconnect_no_unregister(s) ==
    /\ ws[s].pc = "open"
    /\ ~ws[s].peer
    /\ manager_lock = NoProc
    /\ ws' = [ws EXCEPT ![s] = [@ EXCEPT !.pc = "offline"]]
    /\ liveLast' = Quiet("ws_disconnect", WsProc(s))
    /\ UNCHANGED <<doc, issued, session, state_lock, manager_lock, connections, req,
                   restVars>>

\* receive_json raises WebSocketDisconnect: manager.disconnect(username)
WsDisconnect(s) ==
    /\ ws[s].pc = "open"
    /\ ~ws[s].peer
    /\ manager_lock = NoProc
    /\ connections' = ConnectionManager_disconnect(connections, ws[s].user)
    /\ ws' = [ws EXCEPT ![s] = [@ EXCEPT !.pc = "offline",
                                         !.trace = Append(@, "unregister")]]
    /\ liveLast' = Quiet("ws_disconnect", WsProc(s))
    /\ UNCHANGED <<doc, issued, session, state_lock, manager_lock, req, restVars>>

\* the block under state_lock of the except branch, and the broadcast is next
WsOffline(s) ==
    LET r == websocket_endpoint_down(doc, ws[s].user, now)
    IN  /\ ws[s].pc = "offline"
        /\ state_lock = NoProc
        /\ doc' = Persisted(r)
        /\ ws' = [ws EXCEPT ![s] =
                    [@ EXCEPT !.pc = "farewell", !.trace = Append(@, "persist"),
                              !.sends = [NoSends EXCEPT !.todo =
                                            <<Broadcast("status_offline", ws[s].user)>>]]]
        /\ liveLast' = LiveStep("ws_offline", WsProc(s),
                                IF r.saved THEN "load_save" ELSE "load", WsProc(s),
                                NoUser, NoSocket, "none", "none")
        /\ UNCHANGED <<issued, session, state_lock, manager_lock, connections, req,
                       restVars>>

\* one send_json of the broadcast or send_personal call that socket s's handler
\* is in; WebSocketDisconnect is caught only inside the read loop
WsSend(s) ==
    LET sends == ws[s].sends
        caught(o) == o = "WebSocketDisconnect" /\ ws[s].pc = "relay"
        passed(o) == o \in {"none", "delivered", "dropped"}
        begun == IF sends.todo[1].kind = "broadcast" /\ ~sends.snap
                 THEN Append(ws[s].trace, "broadcast") ELSE ws[s].trace
    IN  /\ ws[s].pc \in {"announce", "relay", "farewell"}
        /\ \E o \in (IF Targets(sends) = <<>> THEN {"none"}
                     ELSE SendOutcomes(Targets(sends)[1])) :
            /\ manager_lock = NoProc
            /\ manager_lock' = LockWhileSending(WsProc(s))
            /\ connections' = IF caught(o)
                              THEN ConnectionManager_disconnect(connections, ws[s].user)
                              ELSE connections
            /\ ws' = [ws EXCEPT ![s] =
                        CASE passed(o) /\ Sent(sends).todo # <<>> ->
                               [@ EXCEPT !.sends = Sent(sends), !.trace = begun]
                          [] passed(o) /\ Sent(sends).todo = <<>>
                                /\ ws[s].pc = "farewell" ->
                               [@ EXCEPT !.pc = "done", !.peer = FALSE,
                                         !.sends = NoSends, !.trace = begun]
                          [] passed(o) /\ Sent(sends).todo = <<>>
                                /\ ws[s].pc # "farewell" ->
                               [@ EXCEPT !.pc = "open", !.sends = NoSends,
                                         !.trace = begun]
                          [] caught(o) ->
                               [@ EXCEPT !.pc = "offline", !.sends = NoSends,
                                         !.trace = Append(begun, "unregister")]
                          [] OTHER ->
                               [@ EXCEPT !.pc = IF ws[s].pc = "relay" THEN "crashed"
                                                ELSE "failed",
                                         !.peer = FALSE, !.sends = NoSends,
                                         !.trace = begun]]
            /\ liveLast' = SendStep(WsProc(s), sends, o)
            /\ UNCHANGED <<doc, issued, session, state_lock, req, restVars>>

\* the pushes after two expired_events entries: to the sender, then the recipient
ExpiredPushes(events) ==
    [i \in 1..(2 * Len(events)) |->
        IF i % 2 = 1 THEN Personal(events[(i + 1) \div 2].sender, "invite_response")
        ELSE Personal(events[i \div 2].recipient, "invite_response")]

\* mutant: the notifications are sent whether or not the handler reached save_db
Pushes_unsaved(op, r, to) ==
    CASE op = "login" -> <<Broadcast("status_online", to)>>
      [] op = "logout" -> <<Broadcast("status_offline", to)>>
      [] op = "create_room" -> <<Broadcast("room_created", to)>>
      [] op = "send_message" -> <<Broadcast("message", to)>>
      [] op = "create_invite" -> ExpiredPushes(r.events) \o <<Personal(to, "invite")>>
      [] op \in {"accept_invite", "decline_invite"} ->
             ExpiredPushes(r.events) \o <<Personal(to, "invite_response")>>
      [] OTHER -> <<>>

\* what a handler that ended with r calls on the manager after its
\* `async with state_lock` block, in order; an HTTPException skips all of it
Pushes(op, r, to) ==
    IF r.code # 200 THEN <<>>
    ELSE CASE op = "login" -> <<Broadcast("status_online", to)>>
           [] op = "logout" -> <<Broadcast("status_offline", to)>>
           [] op = "create_room" -> <<Broadcast("room_created", to)>>
           [] op = "send_message" -> <<Broadcast("message", to)>>
           [] op = "create_invite" ->
                  ExpiredPushes(r.events) \o <<Personal(to, "invite")>>
           [] op \in {"accept_invite", "decline_invite"} ->
                  ExpiredPushes(r.events) \o <<Personal(to, "invite_response")>>
           [] OTHER -> <<>>

\* get_authenticated_user for request k: load_db and authenticate_token, with no
\* lock taken
LiveAuthenticate(k) ==
    \E token \in 0..issued :
        LET auth == authenticate_token(token, doc)
        IN  /\ req[k].pc = "idle"
            /\ req' = [req EXCEPT ![k] =
                         IF auth.code = 200
                         THEN [IdleRequest EXCEPT !.pc = "authed", !.token = token,
                                                  !.user = auth.user]
                         ELSE IdleRequest]
            /\ liveLast' = LiveStep("authenticate", HttpProc(k), "load", state_lock,
                                    NoUser, NoSocket, "none",
                                    IF auth.code = 200 THEN "ok" ELSE "refused")
            /\ UNCHANGED <<doc, issued, session, state_lock, manager_lock, connections,
                           ws, restVars>>

\* request k's handler ran and ended with r; `locked` tells whether it came to
\* its `async with state_lock` block or raised before it
LiveTransact(k, op, r, to, locked) ==
    /\ locked => state_lock = NoProc
    /\ doc' = Persisted(r)
    /\ req' = [req EXCEPT ![k] =
                 IF Pushes(op, r, to) = <<>> THEN IdleRequest
                 ELSE [@ EXCEPT !.pc = "notify", !.op = op, !.saved = r.saved,
                                !.sends = [NoSends EXCEPT !.todo = Pushes(op, r, to)]]]
    /\ liveLast' = LiveStep(op, HttpProc(k),
                            IF r.saved THEN "load_save" ELSE IF locked THEN "load"
                            ELSE "none",
                            IF locked THEN HttpProc(k) ELSE state_lock,
                            NoUser, NoSocket, "none",
                            IF r.code = 200 THEN "ok" ELSE "refused")
    /\ UNCHANGED <<state_lock, manager_lock, connections, ws, restVars>>

LiveLogin(k) ==
    \E username \in Usernames, password \in Passwords :
        LET r == login(doc, username, password, issued + 1, now)
        IN  /\ req[k].pc = "idle"
            /\ issued < MaxTokens
            /\ LiveTransact(k, "login", r, username, TRUE)
            /\ issued' = IF r.code = 200 THEN issued + 1 ELSE issued
            /\ session' = IF r.code = 200
                          THEN [session EXCEPT ![username] = issued + 1]
                          ELSE session

LiveLogout(k) ==
    \E token \in 0..issued :
        LET r == logout(doc, token, now)
        IN  /\ req[k].pc = "idle"
            /\ LiveTransact(k, "logout", r, IF r.code = 200 THEN r.body ELSE NoUser, TRUE)
            /\ session' = IF r.code = 200
                          THEN [session EXCEPT ![r.body] = NoToken]
                          ELSE session
            /\ UNCHANGED issued

LiveListRooms(k) ==
    \E user \in Usernames :
        /\ req[k].pc = "authed"
        /\ LiveTransact(k, "list_rooms", list_rooms(doc, req[k].user, user), user,
                        user = req[k].user)
        /\ UNCHANGED <<issued, session>>

LiveCreateRoom(k) ==
    \E owner \in Usernames, members \in MemberLists :
        /\ req[k].pc = "authed"
        /\ Len(doc.rooms) < MaxInviteRooms
        /\ LiveTransact(k, "create_room",
                        create_room(doc, req[k].user, owner, members, now), owner,
                        owner = req[k].user)
        /\ UNCHANGED <<issued, session>>

LiveCreateInviteUpTo(k, n) ==
    \E sender \in Usernames, recipient \in Usernames, room_id \in 1..MaxInviteRooms :
        /\ req[k].pc = "authed"
        /\ Len(doc.invitations) < n
        /\ LiveTransact(k, "create_invite",
                        create_invite(doc, req[k].user, sender, recipient, room_id, now),
                        recipient, sender = req[k].user)
        /\ UNCHANGED <<issued, session>>

LiveCreateInvite(k) == LiveCreateInviteUpTo(k, MaxLiveInvites)

LiveAcceptInvite(k) ==
    \E invite_id \in 1..MaxInvites :
        LET r == accept_invite(doc, req[k].user, invite_id, now)
        IN  /\ req[k].pc = "authed"
            /\ LiveTransact(k, "accept_invite", r,
                            IF r.code = 200 THEN doc.invitations[invite_id].sender
                            ELSE NoUser, TRUE)
            /\ UNCHANGED <<issued, session>>

LiveDeclineInvite(k) ==
    \E invite_id \in 1..MaxInvites :
        LET r == decline_invite(doc, req[k].user, invite_id, now)
        IN  /\ req[k].pc = "authed"
            /\ LiveTransact(k, "decline_invite", r,
                            IF r.code = 200 THEN doc.invitations[invite_id].sender
                            ELSE NoUser, TRUE)
            /\ UNCHANGED <<issued, session>>

LiveSendMessage(k) ==
    \E room_id \in 1..MaxInviteRooms, sender \in Usernames :
        /\ req[k].pc = "authed"
        /\ Len(doc.messages) < MaxLiveMessages
        /\ LiveTransact(k, "send_message",
                        send_message(doc, req[k].user, room_id, sender, <<>>, now),
                        sender, sender = req[k].user)
        /\ UNCHANGED <<issued, session>>

LiveListMessages(k) ==
    \E room_id \in 1..MaxInviteRooms :
        /\ req[k].pc = "authed"
        /\ LiveTransact(k, "list_messages", list_messages(doc, req[k].user, room_id),
                        req[k].user, TRUE)
        /\ UNCHANGED <<issued, session>>

\* one send_json of the call that request k's handler is in; an error of the
\* send ends the handler
LiveSend(k) ==
    LET sends == req[k].sends
    IN  /\ req[k].pc = "notify"
        /\ \E o \in (IF Targets(sends) = <<>> THEN {"none"}
                     ELSE SendOutcomes(Targets(sends)[1])) :
            /\ manager_lock = NoProc
            /\ manager_lock' = LockWhileSending(HttpProc(k))
            /\ req' = [req EXCEPT ![k] =
                         IF o \in {"none", "delivered", "dropped"}
                            /\ Sent(sends).todo # <<>>
                         THEN [@ EXCEPT !.sends = Sent(sends)]
                         ELSE IdleRequest]
            /\ liveLast' = SendStep(HttpProc(k), sends, o)
            /\ UNCHANGED <<doc, issued, session, state_lock, connections, ws, restVars>>

\* instants at which two invitations become overdue one after the other
SweepInstants == {0, 1, 301, 302}

\* time passes while the background task runs
SweepTick ==
    \E t \in SweepInstants :
        /\ t > now
        /\ now' = t
        /\ liveLast' = Quiet("tick", NoProc)
        /\ UNCHANGED <<doc, issued, inflight, last, session, sent, creator, flips,
                       storeVars, state_lock, manager_lock, connections, ws, req, sweep>>

\* expire_invites_task after its sleep: the block under state_lock
SweepWake ==
    LET r == expire_invites_task(doc, now)
    IN  /\ sweep.pc = "sleep"
        /\ state_lock = NoProc
        /\ doc' = Persisted(r)
        /\ sweep' = IF r.events = <<>> THEN sweep
                    ELSE [sweep EXCEPT !.pc = "notify",
                                       !.expired = @ \o r.events,
                                       !.sends = [NoSends EXCEPT !.todo =
                                                     ExpiredPushes(r.events)]]
        /\ liveLast' = LiveStep("sweep", SweepProc,
                                IF r.saved THEN "load_save" ELSE "load", SweepProc,
                                NoUser, NoSocket, "none", "ok")
        /\ UNCHANGED <<now, issued, inflight, last, session, sent, creator, flips,
                       storeVars, state_lock, manager_lock, connections, ws, req>>

\* one send_personal of the task's for loop; nothing in the task catches an
\* error of the send, which ends the coroutine
SweepSend ==
    LET sends == sweep.sends
    IN  /\ sweep.pc = "notify"
        /\ \E o \in (IF Targets(sends) = <<>> THEN {"none"}
                     ELSE SendOutcomes(Targets(sends)[1])) :
            /\ manager_lock = NoProc
            /\ manager_lock' = LockWhileSending(SweepProc)
            /\ sweep' = IF o \in {"none", "delivered", "dropped"}
                        THEN [sweep EXCEPT
                                 !.pc = IF Sent(sends).todo = <<>> THEN "sleep"
                                        ELSE "notify",
                                 !.sends = Sent(sends),
                                 !.attempts = Append(@, sends.todo[1])]
                        ELSE [sweep EXCEPT !.pc = "stopped", !.sends = NoSends,
                                           !.attempts = Append(@, sends.todo[1])]
            /\ liveLast' = SendStep(SweepProc, sends, o)
            /\ UNCHANGED <<doc, now, issued, inflight, last, session, sent, creator,
                           flips, storeVars, state_lock, connections, ws, req>>

---------------------------------------------------------------------------
(* db.py: the calls *)

\* a call that ended with r
StoreCall(op, r, id) ==
    /\ store' = r.data
    /\ storeLast' = StoreOutcome(op, r, id)
    /\ UNCHANGED <<now, serverVars, liveVars>>

StoreRegisterUser ==
    \E username \in Usernames :
        /\ StoreCall("register_user",
                     DataStore_register_user(store, username, PasswordOf(username), now), 0)
        /\ UNCHANGED minted

StoreCreateSession ==
    \E username \in Usernames :
        /\ minted < MaxTokens
        /\ StoreCall("create_session",
                     DataStore_create_session(store, username, minted + 1, now), minted + 1)
        /\ minted' = minted + 1

StoreDropSession ==
    \E token \in 1..MaxTokens :
        /\ StoreCall("drop_session", DataStore_drop_session(store, token, now), token)
        /\ UNCHANGED minted

StoreCreateRoom ==
    \E owner \in Usernames, members \in MemberLists :
        /\ Len(store.rooms) < MaxRooms
        /\ StoreCall("create_room", DataStore_create_room(store, owner, members, now),
                     Len(store.rooms) + 1)
        /\ UNCHANGED minted

StoreAddMember ==
    \E room_id \in 1..MaxRooms, username \in Usernames :
        /\ StoreCall("add_member_to_room",
                     DataStore_add_member_to_room(store, room_id, username), room_id)
        /\ UNCHANGED minted

StoreCreateInvite ==
    \E from_user \in Usernames, to_user \in Usernames, room_id \in 1..MaxRooms :
        /\ Len(store.invites) < MaxInvites
        /\ StoreCall("create_invite",
                     DataStore_create_invite(store, from_user, to_user, room_id, now),
                     room_id)
        /\ UNCHANGED minted

StoreGetInvite ==
    \E invite_id \in 1..MaxInvites :
        /\ StoreCall("get_invite", DataStore_get_invite(store, invite_id, now), invite_id)
        /\ UNCHANGED minted

StoreListInvites ==
    \E username \in Usernames :
        /\ StoreCall("list_invites_for_user",
                     DataStore_list_invites_for_user(store, username, now), 0)
        /\ UNCHANGED minted

StoreUpdateInviteStatus ==
    \E invite_id \in 1..MaxInvites, status \in {"accepted", "declined"} :
        /\ StoreCall("update_invite_status",
                     DataStore_update_invite_status(store, invite_id, status, now),
                     invite_id)
        /\ UNCHANGED minted

StoreAddMessage ==
    \E room_id \in 1..MaxRooms, sender \in Usernames :
        /\ Len(store.messages) < MaxMessages
        /\ StoreCall("add_message",
                     DataStore_add_message(store, room_id, sender, <<>>, now), room_id)
        /\ UNCHANGED minted

StoreTick ==
    \E t \in Instants :
        /\ t > now
        /\ now' = t
        /\ storeLast' = StoreOutcome("tick", StoreReturn(store, <<>>), 0)
        /\ UNCHANGED <<serverVars, store, minted, liveVars>>

\* users, rooms, members and messages of the DataStore
NextStoreRooms ==
    \/ StoreRegisterUser
    \/ StoreCreateRoom
    \/ StoreAddMember
    \/ StoreAddMessage

\* users and sessions of the DataStore
NextStoreSessions ==
    \/ StoreRegisterUser
    \/ StoreCreateSession
    \/ StoreDropSession

\* rooms and invites of the DataStore
NextStoreInvites ==
    \/ StoreTick
    \/ (Len(store.rooms) < MaxInviteRooms /\ StoreCreateRoom)
    \/ StoreCreateInvite
    \/ StoreGetInvite
    \/ StoreListInvites
    \/ StoreUpdateInviteStatus

\* room members: rooms and accepted invitations of main.py, rooms of the DataStore
NextMembers ==
    \/ Authenticate
    \/ (Len(doc.rooms) < MaxInviteRooms /\ CreateRoom)
    \/ CreateInvite
    \/ AcceptInvite
    \/ (Len(store.rooms) < MaxInviteRooms /\ StoreCreateRoom)
    \/ StoreAddMember

\* user records: /register, /login and /logout of main.py, users and sessions of
\* the DataStore
NextUsers ==
    \/ Register
    \/ Login
    \/ Logout
    \/ StoreRegisterUser
    \/ StoreCreateSession

\* the sockets, with /logout to make a token stale
NextLive ==
    \/ \E s \in Sockets : WsStart(s)
    \/ \E s \in Sockets : WsValidate(s)
    \/ \E s \in Sockets : WsCloseDone(s)
    \/ \E s \in Sockets : WsConnect(s)
    \/ \E s \in Sockets : WsSend(s)
    \/ \E s \in Sockets : WsFrame(s)
    \/ \E s \in Sockets : WsClientGone(s)
    \/ \E s \in Sockets : WsDisconnect(s)
    \/ \E s \in Sockets : WsOffline(s)
    \/ LiveLogout(1)
    \/ LiveSend(1)

\* the background task, with one socket that listens and one request
NextSweep ==
    \/ WsStart(1)
    \/ WsValidate(1)
    \/ WsCloseDone(1)
    \/ WsConnect(1)
    \/ WsSend(1)
    \/ WsClientGone(1)
    \/ LiveAuthenticate(1)
    \/ LiveCreateInviteUpTo(1, MaxSweepInvites)
    \/ LiveSend(1)
    \/ SweepTick
    \/ SweepWake
    \/ SweepSend

\* the requests that notify, with one socket that listens
NextPushes ==
    \/ WsStart(1)
    \/ WsValidate(1)
    \/ WsCloseDone(1)
    \/ WsConnect(1)
    \/ WsSend(1)
    \/ WsClientGone(1)
    \/ WsDisconnect(1)
    \/ WsOffline(1)
    \/ LiveAuthenticate(1)
    \/ LiveLogout(1)
    \/ LiveCreateRoom(1)
    \/ LiveCreateInvite(1)
    \/ LiveAcceptInvite(1)
    \/ LiveDeclineInvite(1)
    \/ LiveSendMessage(1)
    \/ LiveSend(1)

\* the token-authenticated requests next to /login and /logout
NextLocked ==
    \/ \E k \in 1..MaxLiveRequests : LiveAuthenticate(k)
    \/ \E k \in 1..MaxLiveRequests : LiveLogin(k)
    \/ \E k \in 1..MaxLiveRequests : LiveLogout(k)
    \/ \E k \in 1..MaxLiveRequests : LiveListRooms(k)
    \/ \E k \in 1..MaxLiveRequests : LiveCreateRoom(k)
    \/ \E k \in 1..MaxLiveRequests : LiveCreateInvite(k)
    \/ \E k \in 1..MaxLiveRequests : LiveAcceptInvite(k)
    \/ \E k \in 1..MaxLiveRequests : LiveDeclineInvite(k)
    \/ \E k \in 1..MaxLiveRequests : LiveSendMessage(k)
    \/ \E k \in 1..MaxLiveRequests : LiveListMessages(k)
    \/ \E k \in 1..MaxLiveRequests : LiveSend(k)

\* sessions only: /register, /login, /logout and the token dependency
NextSessions ==
    \/ Tick
    \/ Register
    \/ Login
    \/ Logout
    \/ Authenticate

\* rooms and the invitation lifecycle
NextInvites ==
    \/ Tick
    \/ Authenticate
    \/ ListRooms
    \/ (Len(doc.rooms) < MaxInviteRooms /\ CreateRoom)
    \/ CreateInvite
    \/ AcceptInvite
    \/ DeclineInvite
    \/ Sweep

\* rooms and their messages
NextMessages ==
    \/ Authenticate
    \/ CreateRoom
    \/ SendMessage
    \/ ListMessages

\* the whole server
Next ==
    \/ NextSessions
    \/ NextInvites
    \/ NextMessages

Spec == Init /\ [][Next]_vars
SpecSessions == Init /\ [][NextSessions]_vars
SpecInvites == InitSeeded /\ [][NextInvites]_vars
SpecMessages == InitSeeded /\ [][NextMessages]_vars
SpecStoreRooms == Init /\ [][NextStoreRooms]_vars
SpecStoreSessions == Init /\ [][NextStoreSessions]_vars
SpecStoreInvites == Init /\ [][NextStoreInvites]_vars
SpecMembers == InitSeeded /\ [][NextMembers]_vars
SpecUsers == Init /\ [][NextUsers]_vars
SpecLive == InitSeeded /\ [][NextLive]_vars
SpecLocked == InitSeeded /\ [][NextLocked]_vars
SpecPushes == InitSeeded /\ [][NextPushes]_vars
SpecSweep == InitRoom /\ [][NextSweep]_vars

\* the event loop runs the background task whenever it can take a step, a
\* close that holds state_lock completes, and time passes
SpecSweepFair ==
    /\ SpecSweep
    /\ WF_vars(SweepWake)
    /\ WF_vars(SweepSend)
    /\ WF_vars(WsCloseDone(1))
    /\ WF_vars(SweepTick)

---------------------------------------------------------------------------
(* Properties of main.py *)

Invitations == 1..Len(doc.invitations)

\* the document as accept_invite and decline_invite see it after their inline sweep
Swept == cleanup_expired_invites(doc, now).data

\* a handler that ended with r left the persisted document as it was
Untouched(r) == Persisted(r) = doc

\* C1: once the persisted status of an invitation is accepted, declined or expired,
\* no step (accept_invite, decline_invite, create_invite, inline or background
\* sweep) changes it, and the invitation stays in the document.
InviteStatusMonotone ==
    [][\A i \in Invitations :
          doc.invitations[i].status # "pending"
          => /\ i <= Len(doc'.invitations)
             /\ doc'.invitations[i].status = doc.invitations[i].status]_vars

\* an accept_invite ran on an invitation that a sweep had expired
AcceptAfterExpiry ==
    \E i \in Invitations :
        /\ doc.invitations[i].status = "expired"
        /\ last.op = "accept_invite" /\ last.id = i /\ last.code = 409

\* C2: the persisted status of an invitation changes at most once and is non-pending
\* exactly when it changed once.  While it is pending, whichever of the three runs
\* first makes the transition: the sweep if the invitation is overdue, else the
\* accept_invite or decline_invite of the recipient.  From then on every
\* accept_invite and decline_invite on it, by any caller, ends with
\* 409 "Invite is <status>" and persists nothing.
FirstTransitionWins ==
    \A i \in Invitations :
        LET status == doc.invitations[i].status
            recipient == doc.invitations[i].recipient
            StatusAfter(r) == Persisted(r).invitations[i].status
        IN  /\ flips[i] = IF status = "pending" THEN 0 ELSE 1
            /\ status = "pending"
               => IF IsOverdue(doc.invitations[i], now)
                  THEN StatusAfter(expire_invites_task(doc, now)) = "expired"
                  ELSE /\ StatusAfter(accept_invite(doc, recipient, i, now)) = "accepted"
                       /\ StatusAfter(decline_invite(doc, recipient, i, now)) = "declined"
                       /\ StatusAfter(expire_invites_task(doc, now)) = "pending"
            /\ status # "pending"
               => \A token \in Usernames :
                     LET a == accept_invite(doc, token, i, now)
                         d == decline_invite(doc, token, i, now)
                     IN  /\ a.code = 409 /\ a.detail = InviteIs(status) /\ Untouched(a)
                         /\ d.code = 409 /\ d.detail = InviteIs(status) /\ Untouched(d)

\* a decline_invite lost against the accept_invite of the same invitation
DeclineLostToAccept ==
    \E i \in Invitations :
        /\ doc.invitations[i].status = "accepted"
        /\ flips[i] = 1
        /\ last.op = "decline_invite" /\ last.id = i
        /\ last.code = 409 /\ last.detail = "Invite is accepted"

\* C4: an invitation created at T is persisted as expired only at times after
\* T + 300, and an accept_invite or decline_invite that runs after T + 300 on an
\* invitation still persisted as pending ends with 409 "Invite is expired" and
\* persists nothing (no accepted or declined status, no new room member).
ExpiryBound ==
    \A i \in Invitations :
        LET invite == doc.invitations[i]
        IN  /\ invite.status = "expired"
               => now - invite.created_at > INVITE_TIMEOUT_SECONDS
            /\ (invite.status = "pending"
                  /\ now - invite.created_at > INVITE_TIMEOUT_SECONDS)
               => \A token \in Usernames :
                     LET a == accept_invite(doc, token, i, now)
                         d == decline_invite(doc, token, i, now)
                     IN  /\ a.code = 409 /\ a.detail = "Invite is expired" /\ Untouched(a)
                         /\ d.code = 409 /\ d.detail = "Invite is expired" /\ Untouched(d)

\* an accept_invite found an overdue invitation that no sweep had persisted as expired
OverdueAcceptRefused ==
    \E i \in Invitations :
        /\ doc.invitations[i].status = "pending"
        /\ now - doc.invitations[i].created_at > INVITE_TIMEOUT_SECONDS
        /\ last.op = "accept_invite" /\ last.id = i
        /\ last.code = 409 /\ last.detail = "Invite is expired"

\* C5: whatever the request, an operation that ends with an error leaves the
\* persisted document as it was, also when its copy was already changed by the
\* inline sweep, or by accept_invite setting "accepted" before it misses the room
\* (a document whose rooms were removed).
ErrorAtomicity ==
    LET Atomic(r) == r.code # 200 => Untouched(r)
        orphaned == [doc EXCEPT !.rooms = <<>>]
    IN  /\ \A username \in Usernames, password \in Passwords :
              /\ Atomic(register(doc, username, password, now))
              /\ Atomic(login(doc, username, password, issued + 1, now))
        /\ \A token \in 0..issued : Atomic(logout(doc, token, now))
        /\ \A token \in Usernames :
              /\ \A owner \in Usernames, members \in MemberLists :
                    Atomic(create_room(doc, token, owner, members, now))
              /\ \A sender \in Usernames, recipient \in Usernames, room_id \in 1..MaxRooms :
                    Atomic(create_invite(doc, token, sender, recipient, room_id, now))
              /\ \A invite_id \in 1..MaxInvites :
                    /\ Atomic(accept_invite(doc, token, invite_id, now))
                    /\ Atomic(decline_invite(doc, token, invite_id, now))
                    /\ accept_invite(orphaned, token, invite_id, now).code # 200
                    /\ ~accept_invite(orphaned, token, invite_id, now).saved
              /\ \A room_id \in 1..MaxRooms, sender \in Usernames,
                    attachments \in AttachmentLists :
                    Atomic(send_message(doc, token, room_id, sender, attachments, now))

\* a create_invite failed after its inline sweep had changed its copy
ErrorAfterInlineSweep ==
    /\ last.op = "create_invite" /\ last.code = 404
    /\ Swept # doc

\* C8: whenever an invitation is persisted as accepted, its recipient is a member of
\* its room and list_rooms of the recipient returns the room; decline_invite and the
\* sweep leave every room as it is.
AcceptedIsMember ==
    /\ \A i \in Invitations :
          LET invite == doc.invitations[i]
          IN  invite.status = "accepted"
              => /\ invite.room_id \in 1..Len(doc.rooms)
                 /\ invite.recipient \in Range(doc.rooms[invite.room_id].members)
                 /\ invite.room_id
                      \in Range(list_rooms(doc, invite.recipient, invite.recipient).body)
    /\ \A token \in Usernames, invite_id \in 1..MaxInvites :
          Persisted(decline_invite(doc, token, invite_id, now)).rooms = doc.rooms
    /\ Persisted(expire_invites_task(doc, now)).rooms = doc.rooms

\* the recipient joined the room by accepting and then listed the rooms
AcceptedThenListed ==
    \E i \in Invitations :
        /\ doc.invitations[i].status = "accepted"
        /\ doc.rooms[doc.invitations[i].room_id].members = <<"bob", "alice">>
        /\ doc.invitations[i].recipient = "alice"
        /\ last.op = "list_rooms" /\ last.code = 200

\* C9: on an invitation that is pending when the handler looks at it (persisted as
\* pending and not overdue), accept_invite and decline_invite by a user other than
\* the recipient end with 403 "Not invite recipient" and persist nothing: the
\* invitation stays pending and the room keeps its members.
OnlyRecipientResponds ==
    \A i \in Invitations, token \in Usernames :
        (Swept.invitations[i].status = "pending" /\ token # doc.invitations[i].recipient)
        => LET a == accept_invite(doc, token, i, now)
               d == decline_invite(doc, token, i, now)
           IN  /\ a.code = 403 /\ a.detail = "Not invite recipient" /\ Untouched(a)
               /\ d.code = 403 /\ d.detail = "Not invite recipient" /\ Untouched(d)

\* the sender of an invitation tried to decline it
StrangerRefused ==
    \E i \in Invitations :
        /\ doc.invitations[i].status = "pending"
        /\ doc.invitations[i].sender # doc.invitations[i].recipient
        /\ last.op = "decline_invite" /\ last.id = i
        /\ last.code = 403 /\ last.detail = "Not invite recipient"

\* C3: a token authenticates as user U exactly when it is the token of U's latest
\* successful login and U has not logged out since; so the token of an earlier
\* login and a logged-out token fail, and no user has two valid tokens.
SingleActiveSession ==
    LET Valid(u) == {token \in 0..MaxTokens + 1 :
                        /\ authenticate_token(token, doc).code = 200
                        /\ authenticate_token(token, doc).user = u}
    IN  \A u \in Usernames :
           /\ Valid(u) = {session[u]} \ {NoToken}
           /\ Cardinality(Valid(u)) <= 1

\* a user logged in twice and the dependency then refused the first token
FirstTokenRefused ==
    \E u \in Usernames, old \in 1..issued :
        /\ session[u] > old
        /\ \A v \in Usernames : session[v] # old
        /\ last.op = "authenticate" /\ last.id = old
        /\ last.code = 401 /\ last.detail = "Invalid token"

\* C7: list_messages of a room returns, to every member, exactly the entries that
\* successful send_message calls appended to that room, in the order of appending;
\* the stored messages are the appended entries, and no other operation touches them.
MessageVisibility ==
    /\ doc.messages = sent
    /\ \A room_id \in 1..Len(doc.rooms), token \in Usernames :
          LET r == list_messages(doc, token, room_id)
          IN  r.code = 200
              => r.body = SelectSeq(sent, LAMBDA entry : entry.room_id = room_id)
    /\ \A token \in Usernames :
          /\ \A owner \in Usernames, members \in MemberLists :
                Persisted(create_room(doc, token, owner, members, now)).messages = sent
          /\ \A sender \in Usernames, recipient \in Usernames, room_id \in 1..MaxRooms :
                Persisted(create_invite(doc, token, sender, recipient, room_id, now)).messages
                   = sent
          /\ \A invite_id \in 1..MaxInvites :
                /\ Persisted(accept_invite(doc, token, invite_id, now)).messages = sent
                /\ Persisted(decline_invite(doc, token, invite_id, now)).messages = sent
    /\ Persisted(expire_invites_task(doc, now)).messages = sent
    /\ \A token \in 0..issued : Persisted(logout(doc, token, now)).messages = sent
    /\ \A username \in Usernames, password \in Passwords :
          /\ Persisted(register(doc, username, password, now)).messages = sent
          /\ Persisted(login(doc, username, password, issued + 1, now)).messages = sent

\* two rooms hold one message each and a member listed the messages of one room
TwoRoomsListed ==
    /\ Len(sent) = 2
    /\ sent[1].room_id # sent[2].room_id
    /\ last.op = "list_messages" /\ last.code = 200


---------------------------------------------------------------------------
(* messages and their senders *)

\* main.py: a send_message by a user outside the room is refused with 403 and
\* appends nothing, and every entry of "messages" names a room of "rooms" and a
\* sender in that room's members
ServerMessagesFromMembers ==
    /\ \A token \in Usernames, room_id \in 1..Len(doc.rooms),
          attachments \in AttachmentLists :
          LET r == send_message(doc, token, room_id, token, attachments, now)
          IN  token \notin Range(doc.rooms[room_id].members)
              => r.code = 403 /\ Persisted(r) = doc
    /\ \A k \in 1..Len(doc.messages) :
          /\ doc.messages[k].room_id \in 1..Len(doc.rooms)
          /\ doc.messages[k].sender \in Range(doc.rooms[doc.messages[k].room_id].members)

\* main.py: a stranger's message was refused while a member's message is stored
StrangerMessageRefused ==
    /\ last.op = "send_message"
    /\ last.code = 403
    /\ last.detail = "Sender not in room"
    /\ Len(doc.messages) > 0

\* db.py: every message of the DataStore names a room of the DataStore and a
\* sender in that room's members
StoreMessagesFromMembers ==
    \A k \in 1..Len(store.messages) :
        /\ store.messages[k].room_id \in 1..Len(store.rooms)
        /\ store.messages[k].sender
               \in Range(store.rooms[store.messages[k].room_id].members)

\* C6: a message sent to a room by a user who is not in the room's member list
\* is refused and nothing is appended, so that in every reachable state every
\* stored message references an existing room and its sender is a member of that
\* room; stated for both message stores of the repository
MessagesFromMembers ==
    /\ ServerMessagesFromMembers
    /\ StoreMessagesFromMembers

---------------------------------------------------------------------------
(* room membership *)

\* main.py: each room's members are non-empty, hold the creator, are registered
\* and are listed once
ServerRoomMembers ==
    /\ Len(creator) = Len(doc.rooms)
    /\ \A i \in 1..Len(doc.rooms) :
          LET members == doc.rooms[i].members
          IN  /\ Len(members) > 0
              /\ creator[i] \in Range(members)
              /\ Range(members) \subseteq DOMAIN doc.users
              /\ Cardinality(Range(members)) = Len(members)

\* main.py: no step removes a room or a member of a room
ServerMembersOnlyGrow ==
    [][/\ Len(doc.rooms) <= Len(doc'.rooms)
       /\ \A i \in 1..Len(doc.rooms) :
             Range(doc.rooms[i].members) \subseteq Range(doc'.rooms[i].members)]_vars

\* main.py: a room holds its creator and an invited member who accepted
RoomGrewByAccept ==
    /\ last.op = "accept_invite"
    /\ last.code = 200
    /\ \E i \in 1..Len(doc.rooms) : Len(doc.rooms[i].members) = 2

\* db.py: each room's members are non-empty, hold the owner, are registered and
\* are listed once
StoreRoomMembers ==
    \A i \in 1..Len(store.rooms) :
        LET members == store.rooms[i].members
        IN  /\ Len(members) > 0
            /\ store.rooms[i].owner \in Range(members)
            /\ Range(members) \subseteq DOMAIN store.users
            /\ Cardinality(Range(members)) = Len(members)

\* db.py: no call removes a room or a member of a room
StoreMembersOnlyGrow ==
    [][/\ Len(store.rooms) <= Len(store'.rooms)
       /\ \A i \in 1..Len(store.rooms) :
             Range(store.rooms[i].members) \subseteq Range(store'.rooms[i].members)]_vars

\* C10: in every reachable state each room's member list is non-empty, contains
\* the room's owner (creator), contains only registered usernames and has no
\* duplicates, and a room's member set only grows; stated for both room stores of
\* the repository
RoomMembership ==
    /\ [](ServerRoomMembers /\ StoreRoomMembers)
    /\ ServerMembersOnlyGrow
    /\ StoreMembersOnlyGrow

---------------------------------------------------------------------------
(* adding a member twice *)

\* C11: adding a member is idempotent.  DataStore.add_member_to_room called twice
\* with the same room and username leaves the member list that one call leaves,
\* and on a room that does not exist it raises room_not_found and changes no
\* room; in main.py a second accepted invitation of the same recipient to the
\* same room leaves the rooms as the first left them, and an accept whose room
\* is gone answers 404 and saves nothing
AddMemberIdempotent ==
    /\ \A room_id \in 1..MaxRooms, username \in Usernames :
          LET once == DataStore_add_member_to_room(store, room_id, username)
              twice == DataStore_add_member_to_room(once.data, room_id, username)
          IN  IF room_id \in 1..Len(store.rooms)
              THEN /\ once.code = "ok"
                   /\ twice.code = "ok"
                   /\ username \in Range(once.data.rooms[room_id].members)
                   /\ twice.data.rooms = once.data.rooms
                   /\ \A k \in 1..Len(store.rooms) :
                         k # room_id => once.data.rooms[k] = store.rooms[k]
              ELSE /\ once.code = "room_not_found"
                   /\ once.data.rooms = store.rooms
    /\ \A first \in 1..Len(doc.invitations), second \in 1..Len(doc.invitations) :
          LET token == doc.invitations[first].recipient
              once == accept_invite(doc, token, first, now)
              twice == accept_invite(once.data, token, second, now)
          IN  (/\ first # second
               /\ doc.invitations[second].recipient = token
               /\ doc.invitations[second].room_id = doc.invitations[first].room_id
               /\ once.code = 200
               /\ twice.code = 200)
              => /\ token \in Range(once.data.rooms[doc.invitations[first].room_id].members)
                 /\ twice.data.rooms = once.data.rooms
    /\ \A invite_id \in 1..Len(doc.invitations) :
          LET r == accept_invite([doc EXCEPT !.rooms = <<>>],
                                 doc.invitations[invite_id].recipient, invite_id, now)
          IN  r.code \in {404, 409} /\ ~r.saved
    /\ \A i \in 1..Len(doc.rooms) :
          Cardinality(Range(doc.rooms[i].members)) = Len(doc.rooms[i].members)

\* a second invitation of the same recipient to the same room was accepted, and
\* the DataStore was asked to add a member its room already has
SecondAcceptSameRoom ==
    /\ last.op = "accept_invite"
    /\ last.code = 200
    /\ Len(doc.invitations) = 2
    /\ doc.invitations[1].status = "accepted"
    /\ doc.invitations[2].status = "accepted"
    /\ doc.invitations[1].recipient = doc.invitations[2].recipient
    /\ doc.invitations[1].room_id = doc.invitations[2].room_id
    /\ doc.invitations[1].recipient \notin {creator[doc.invitations[1].room_id]}
    /\ storeLast.op = "add_member_to_room"
    /\ storeLast.code = "ok"
    /\ Len(store.rooms) = 1
    /\ Len(store.rooms[1].members) = 2

---------------------------------------------------------------------------
(* unique usernames *)

\* C12: usernames are unique.  A register for a username that exists answers
\* 409 (DataStore: user_exists) and leaves the whole document, so the user's
\* record, as it was; for a username that does not exist it succeeds and a second
\* register of the same username, run after it, is refused and changes nothing:
\* of two register calls for one username exactly one succeeds
UsernamesUnique ==
    /\ \A username \in Usernames, password \in Passwords :
          LET r == register(doc, username, password, now)
          IN  IF username \in DOMAIN doc.users
              THEN r.code = 409 /\ Persisted(r) = doc
              ELSE /\ r.code = 200
                   /\ r.saved
                   /\ \A u \in DOMAIN doc.users : r.data.users[u] = doc.users[u]
                   /\ \A second \in Passwords :
                         LET r2 == register(r.data, username, second, now)
                         IN  /\ r2.code = 409
                             /\ ~r2.saved
                             /\ r2.data.users[username] = r.data.users[username]
    /\ \A username \in Usernames, password \in Passwords :
          LET r == DataStore_register_user(store, username, password, now)
          IN  IF username \in DOMAIN store.users
              THEN r.code = "user_exists" /\ r.data = store
              ELSE /\ r.code = "ok"
                   /\ \A u \in DOMAIN store.users : r.data.users[u] = store.users[u]
                   /\ \A second \in Passwords :
                         LET r2 == DataStore_register_user(r.data, username, second, now)
                         IN  r2.code = "user_exists" /\ r2.data = r.data

\* a register for a taken username was refused while the users are logged in,
\* in main.py and in the DataStore
DuplicateRegisterRefused ==
    /\ last.op = "register"
    /\ last.code = 409
    /\ \A u \in DOMAIN doc.users : doc.users[u].online /\ doc.users[u].token # NoToken
    /\ storeLast.op = "register_user"
    /\ storeLast.code = "user_exists"
    /\ \A u \in DOMAIN store.users : store.users[u].online

---------------------------------------------------------------------------
(* admission of a live connection *)

\* the query of socket s names a user whose current token is the one presented
PresentsCurrentToken(s) ==
    /\ ws[s].user \in DOMAIN doc.users
    /\ ws[s].token # NoToken
    /\ doc.users[ws[s].user].token = ws[s].token

\* C13: a /ws connection is admitted only when the presented token is, when it
\* is validated, the current token of the presented username.  With a missing,
\* unknown or stale token or another user's token the block under state_lock
\* ends in close(1008) and saves nothing; a socket that was refused is closed
\* with 1008, is not in manager.connections and has broadcast nothing; a socket
\* that came further was validated with its user's current token
AdmittedOnlyWithCurrentToken ==
    /\ \A username \in Usernames, token \in (0..issued) \cup {BogusToken} :
          LET r == websocket_endpoint(doc, username, token, now)
          IN  IF token # NoToken /\ doc.users[username].token = token
              THEN r.code = 200
              ELSE r.code = 1008 /\ Persisted(r) = doc
    /\ \A s \in Sockets :
          /\ ws[s].pc = "check" => ws[s].user # NoUser /\ ws[s].token # NoToken
          /\ ws[s].pc \in {"closing", "closed"}
                => /\ \A i \in 1..Len(connections) : connections[i].ws # s
                   /\ ws[s].trace = <<>>
                   /\ ws[s].sends = NoSends
          /\ ws[s].pc = "closed" => ws[s].code = "1008"
          /\ ws[s].pc \notin {"new", "check", "closing", "closed"} => ws[s].valid
          /\ (\E i \in 1..Len(connections) : connections[i].ws = s) => ws[s].valid
    /\ (liveLast.op = "ws_validate" /\ ws[liveLast.task[2]].pc = "closing")
          => liveLast.access = "load" /\ ~PresentsCurrentToken(liveLast.task[2])

\* a socket that presented a token made stale by a logout was closed while the
\* user is offline, and another socket is connected
StaleTokenClosed ==
    \E s \in Sockets, other \in Sockets :
        /\ ws[s].pc = "closed"
        /\ ws[s].token \in 1..issued
        /\ ws[s].user \in Usernames
        /\ doc.users[ws[s].user].token = NoToken
        /\ ~doc.users[ws[s].user].online
        /\ ws[other].pc = "open"

---------------------------------------------------------------------------
(* the lock around DB.dat, and the token at the time of the transaction *)

\* C14: every load_db and every save_db of a request handler, request
\* dependency, WebSocket handler or background task happens while the task that
\* makes it holds state_lock, so that no load falls between the load and the
\* save of another transaction
LockedAccess ==
    liveLast.access # "none" => liveLast.holder = liveLast.task

\* C15: no token-authenticated operation commits a change or returns data for
\* user U unless the presented token is U's current token when the operation's
\* locked transaction runs: after a logout or a second login of U that completed
\* before the transaction, the operation fails
CurrentTokenAtTransaction ==
    [][\A k \in 1..MaxLiveRequests :
          (/\ req[k].pc = "authed"
           /\ req'[k].pc # "authed"
           /\ liveLast'.task = HttpProc(k)
           /\ liveLast'.outcome = "ok")
          => doc.users[req[k].user].token = req[k].token]_vars

---------------------------------------------------------------------------
(* pushes and the two locks *)

\* how often a socket's handler has persisted the presence of its user
Persists(trace) == Cardinality({i \in 1..Len(trace) : trace[i] = "persist"})

---------------------------------------------------------------------------
(* the order of the presence steps of one connection *)

IsPrefix(p, q) == Len(p) <= Len(q) /\ \A i \in 1..Len(p) : p[i] = q[i]

\* is socket c the one registered for some user
Registered(c) == \E i \in 1..Len(connections) : connections[i].ws = c

RegistryFirst == <<"register", "persist", "broadcast", "unregister", "persist", "broadcast">>

PersistFirst == <<"persist", "register", "broadcast", "unregister", "persist", "broadcast">>

\* C17 as stated: in one connection lifecycle the registry is changed first, the
\* presence persisted second and the status broadcast last, on establishment
\* (register, persist online, broadcast) and on termination (unregister, persist
\* offline, broadcast)
PresenceRegistryFirst == \A c \in Sockets : IsPrefix(ws[c].trace, RegistryFirst)

\* C17 amended: on establishment the presence is persisted first, the socket
\* registered second and online broadcast last; on termination the socket is
\* unregistered first, offline persisted second and broadcast last
PresencePersistFirst ==
    \A c \in Sockets :
        /\ IsPrefix(ws[c].trace, PersistFirst)
        /\ ws[c].nth > 0 <=> Len(ws[c].trace) >= 2
        /\ ws[c].pc \in {"new", "check", "closing", "closed"} <=> ws[c].trace = <<>>
        /\ ws[c].pc = "accept" <=> ws[c].trace = <<"persist">>
        /\ ws[c].pc = "offline" <=> Len(ws[c].trace) = 4
        /\ ws[c].pc = "farewell" => Len(ws[c].trace) \in {5, 6}
        /\ ws[c].pc = "done" => ws[c].trace = PersistFirst
        /\ Registered(c) => Len(ws[c].trace) \in {2, 3}

\* a connection went through its whole lifecycle
PresenceLifecycleDone ==
    \E c \in Sockets :
        /\ ws[c].pc = "done"
        /\ ws[c].trace = PersistFirst
        /\ ~Registered(c)
        /\ ~doc.users[ws[c].user].online

---------------------------------------------------------------------------
(* the registry and the personal pushes *)

PersonalTypes == {"invite", "invite_response", "signal", "pong"}

\* no two entries of the registry are for the same user
OnePerUser ==
    \A i, j \in 1..Len(connections) :
        connections[i].user = connections[j].user => i = j

\* the socket registered for a user is the one that user registered last
LatestRegistered ==
    \A i \in 1..Len(connections) :
        /\ ws[connections[i].ws].user = connections[i].user
        /\ \A c \in Sockets :
              ws[c].user = connections[i].user => ws[c].nth <= ws[connections[i].ws].nth

\* a send_json of a personal push went to the socket registered for the
\* addressee when the push was made, and to nothing when there was none
PersonalPushStep ==
    (liveLast'.op = "send" /\ liveLast'.type \in PersonalTypes)
      => LET mine == {i \in 1..Len(connections) : connections[i].user = liveLast'.to}
         IN  IF mine = {}
             THEN /\ liveLast'.ws = NoSocket
                  /\ liveLast'.outcome = "none"
                  /\ connections' = connections
                  /\ doc' = doc
             ELSE /\ liveLast'.outcome # "none"
                  /\ \E i \in mine : connections[i].ws = liveLast'.ws

\* C18: the registry holds at most one socket per username, a later
\* registration for the username replaces the earlier one, and a personal push
\* to user U goes to no socket but the one registered under U, and changes
\* neither the registry nor the document when U has none
RegistryOneChannel ==
    /\ [](OnePerUser /\ LatestRegistered)
    /\ [][PersonalPushStep]_vars

\* a signal reached the second socket of a user whose first socket is still open
SignalToLatestSocket ==
    /\ liveLast.op = "send"
    /\ liveLast.type = "signal"
    /\ liveLast.outcome = "delivered"
    /\ liveLast.ws = 2
    /\ liveLast.task = WsProc(1)
    /\ ws[1].user = ws[2].user
    /\ ws[1].nth = 1
    /\ ws[2].nth = 2
    /\ ws[1].pc = "open"
    /\ ws[1].peer

---------------------------------------------------------------------------
(* two connections of one user *)

\* socket c has registered, its handler is before or in the read loop, and
\* its client is there
OpenConnection(c) ==
    /\ ws[c].nth > 0
    /\ ws[c].pc \in {"announce", "open", "relay"}
    /\ ws[c].peer

\* C19: while the connection that user U registered last is open, no step of
\* the handler of an earlier connection of U takes it out of the registry or
\* marks U offline
NewerConnectionSurvives ==
    [][\A e, c \in Sockets :
          (/\ ws[e].user = ws[c].user
           /\ 0 < ws[e].nth
           /\ ws[e].nth < ws[c].nth
           /\ OpenConnection(c)
           /\ liveLast'.task = WsProc(e))
          => /\ ConnectionOf(connections, ws[c].user) = c
                  => ConnectionOf(connections', ws[c].user) = c
             /\ doc.users[ws[c].user].online => doc'.users[ws[c].user].online]_vars

---------------------------------------------------------------------------
(* the end of the read loop *)

\* C20: when the read loop of a registered connection has ended, by a
\* disconnect or by any failure inside the loop, the presence-down path ran:
\* the socket is out of the registry, offline was persisted and broadcast
TerminatedConnectionDown ==
    \A c \in Sockets :
        (ws[c].nth > 0 /\ ws[c].pc \in {"done", "crashed"})
          => /\ ~Registered(c)
             /\ ws[c].trace = PersistFirst

---------------------------------------------------------------------------
(* a send that fails *)

SendErrors == {"WebSocketDisconnect", "RuntimeError"}

\* C21: a send_json that fails is swallowed: the caller goes on with the other
\* sockets of the snapshot and with its remaining pushes, completes normally,
\* and keeps its own registration and presence
FailedSendSwallowed ==
    [][(liveLast'.op = "send" /\ liveLast'.outcome \in SendErrors)
         => /\ connections' = connections
            /\ doc' = doc
            /\ \A c \in Sockets :
                  liveLast'.task = WsProc(c)
                    => /\ ws'[c].pc \notin {"crashed", "failed", "offline"}
                       /\ Sent(ws[c].sends).todo # <<>>
                             => ws'[c].sends = Sent(ws[c].sends)
            /\ \A k \in 1..MaxLiveRequests :
                  liveLast'.task = HttpProc(k)
                    => (Sent(req[k].sends).todo # <<>>
                          => req'[k].sends = Sent(req[k].sends))]_vars

---------------------------------------------------------------------------
(* the background sweep *)

LastInstant == CHOOSE t \in SweepInstants : \A u \in SweepInstants : u <= t

\* C22, the sweep keeps running and notifies: no iteration and no failed
\* notification ends expire_invites_task, and when the task is back in its
\* sleep it has attempted, for every invitation its saved sweeps expired, one
\* push to the sender and one to the recipient
SweepKeepsNotifying ==
    /\ sweep.pc # "stopped"
    /\ sweep.pc = "sleep" => sweep.attempts = ExpiredPushes(sweep.expired)

\* C22, eventual expiry: with the task scheduled fairly, an invitation that can
\* still become overdue does not stay pending for ever
EventualExpiry ==
    \A i \in 1..MaxSweepInvites :
        (/\ i <= Len(doc.invitations)
         /\ doc.invitations[i].created_at + INVITE_TIMEOUT_SECONDS < LastInstant)
          ~> (i <= Len(doc.invitations) /\ doc.invitations[i].status # "pending")

---------------------------------------------------------------------------
(* db.py: invitation status and sessions of the DataStore *)

\* C23: in the DataStore an invitation that is accepted, declined or expired
\* never changes status again, whatever method is called
StoreInviteStatusMonotone ==
    [][\A i \in 1..Len(store.invites) :
          store.invites[i].status # "pending"
            => store'.invites[i].status = store.invites[i].status]_vars

\* the tokens of the DataStore that map to user u
StoreTokensOf(data, u) ==
    {token \in DOMAIN data.sessions : DataStore_username_from_token(data, token) = u}

\* C24: in the DataStore at most one token maps to a user, a second
\* create_session for the user ending the first token, and drop_session marks
\* a user offline only when no session of that user remains
StoreSingleSession ==
    /\ [](\A u \in Usernames : Cardinality(StoreTokensOf(store, u)) <= 1)
    /\ [][\A u \in DOMAIN store.users :
             (/\ storeLast'.op = "drop_session"
              /\ store.users[u].online
              /\ ~store'.users[u].online)
             => StoreTokensOf(store', u) = {}]_vars

====
